---- MODULE Spec2Model ----
(***************************************************************************)
(* Model of rep0st's media decoding: ReadMediaService.get_images and the   *)
(* generators of DecodeMediaService (src/rep0st/service/media_service.py). *)
(* Byte strings are sequences of byte values; text is a sequence of code   *)
(* points.  The external collaborators (file system, ffprobe, the ffmpeg   *)
(* child process, the consumer of the generator) are the environment: each *)
(* of their answers is chosen at the step of the code that asks for it.    *)
(***************************************************************************)
EXTENDS Integers, Sequences, FiniteSets, TLC

(***************************************************************************)
(* Bounds of the model.                                                    *)
(***************************************************************************)
\* number of complete pixel-map records the child process writes before the tail
MaxRecords == 2
\* capacity of a pipe between the child process and the decoder, in bytes
PipeCap == 2
\* the most bytes the child process writes to its error stream
MaxErr == PipeCap + 1
\* length of the media file, in blocks the child reads one at a time
FileLen == 2

(***************************************************************************)
(* Program constants.                                                      *)
(***************************************************************************)
\* flags.DEFINE_integer('rep0st_video_max_duration', 300, ...)
rep0st_video_max_duration == 300
\* flags.DEFINE_integer('rep0st_video_max_upload_size_mb', 200, ...)
rep0st_video_max_upload_size_mb == 200
\* proc.wait(timeout=1)
WaitTimeout == 1
\* the sample depth the parsing loop accepts
MaxValueRequired == 255

\* b'\n', the line terminator _readline looks for
NL == 10
\* ' ', the separator of split(' ')
SP == 32
\* 'P6', the only format token the loop accepts
P6 == <<80, 54>>

(***************************************************************************)
(* Text helpers of the Python runtime used by the parsing loop.            *)
(***************************************************************************)
\* characters str.strip() removes
StripSpace == {9, 10, 11, 12, 13, 28, 29, 30, 31, 32}
\* characters int() accepts around a number
IntSpace == {9, 10, 11, 12, 13, 32}

RECURSIVE LStrip(_, _)
LStrip(s, ws) ==
  IF s = <<>> THEN <<>>
  ELSE IF Head(s) \in ws THEN LStrip(Tail(s), ws) ELSE s

RECURSIVE RStrip(_, _)
RStrip(s, ws) ==
  IF s = <<>> THEN <<>>
  ELSE IF s[Len(s)] \in ws THEN RStrip(SubSeq(s, 1, Len(s) - 1), ws) ELSE s

\* str.strip()
Strip(s, ws) == RStrip(LStrip(s, ws), ws)

\* the index of the first newline at or after pos, 0 when there is none
RECURSIVE FindNewline(_, _)
FindNewline(stream, pos) ==
  IF pos > Len(stream) THEN 0
  ELSE IF stream[pos] = NL THEN pos
  ELSE FindNewline(stream, pos + 1)

\* bytes.decode('ascii') succeeds on bytes below 128 only
IsAscii(s) == \A i \in 1..Len(s) : s[i] < 128

\* _readline(stream): "none" is the None result (no byte available), "line"
\* a stripped line, "hang" the loop that never ends because read(1) keeps
\* returning b'' (which differs from b'\n') once the stream has ended.
_readline(stream, pos) ==
  IF pos > Len(stream) THEN [kind |-> "none", line |-> <<>>, pos |-> pos]
  ELSE LET j == FindNewline(stream, pos) IN
       IF j = 0 THEN [kind |-> "hang", line |-> <<>>, pos |-> Len(stream) + 1]
       ELSE LET raw == SubSeq(stream, pos, j - 1) IN
            IF IsAscii(raw)
            THEN [kind |-> "line", line |-> Strip(raw, StripSpace), pos |-> j + 1]
            ELSE [kind |-> "UnicodeDecodeError", line |-> <<>>, pos |-> j + 1]

\* str.split(' '): the fields between single spaces, empty fields kept
RECURSIVE SplitFrom(_, _, _)
SplitFrom(s, i, cur) ==
  IF i > Len(s) THEN <<cur>>
  ELSE IF s[i] = SP THEN <<cur>> \o SplitFrom(s, i + 1, <<>>)
  ELSE SplitFrom(s, i + 1, Append(cur, s[i]))

Split(s) == SplitFrom(s, 1, <<>>)

\* '0'..'9'
IsDigit(c) == c >= 48 /\ c <= 57

\* the digits of an int() literal: digits, single underscores (95) between them
DigitsOk(d) ==
  /\ d # <<>>
  /\ \A i \in 1..Len(d) : IsDigit(d[i]) \/ d[i] = 95
  /\ IsDigit(d[1]) /\ IsDigit(d[Len(d)])
  /\ \A i \in 1..(Len(d) - 1) : ~(d[i] = 95 /\ d[i + 1] = 95)

RECURSIVE DigitsValue(_, _)
DigitsValue(d, acc) ==
  IF d = <<>> THEN acc
  ELSE IF Head(d) = 95 THEN DigitsValue(Tail(d), acc)
  ELSE DigitsValue(Tail(d), acc * 10 + (Head(d) - 48))

\* int(text): ok = FALSE is ValueError
ParseInt(text) ==
  LET t == Strip(text, IntSpace)
      \* a leading '+' (43) or '-' (45)
      signed == t # <<>> /\ Head(t) \in {43, 45}
      d == IF signed THEN Tail(t) ELSE t
  IN IF DigitsOk(d)
     THEN [ok |-> TRUE,
           val |-> IF signed /\ Head(t) = 45 THEN 0 - DigitsValue(d, 0)
                   ELSE DigitsValue(d, 0)]
     ELSE [ok |-> FALSE, val |-> 0]

\* stream.read(n) for n >= 0 on a buffered pipe: n bytes, fewer only at end of stream
ReadBytes(stream, pos, n) ==
  LET last == IF pos + n - 1 > Len(stream) THEN Len(stream) ELSE pos + n - 1
  IN SubSeq(stream, pos, last)

\* Mutant of cvtColor: the colour order is left as it came.
cvtColor_NoSwap(data) == data

\* cvtColor(in_frame, COLOR_RGB2BGR) on the flat buffer: per pixel, first and
\* third sample exchanged
cvtColor(data) ==
  [i \in 1..Len(data) |->
     IF i % 3 = 1 THEN data[i + 2]
     ELSE IF i % 3 = 0 THEN data[i - 2]
     ELSE data[i]]

(***************************************************************************)
(* One turn of the parsing loop of decode_video_from_file (lines 120-140). *)
(***************************************************************************)
\* an exception message: what it is about and the values formatted into it
Msg(tag, args) == [tag |-> tag, args |-> args]
NoMsg == Msg("", <<>>)
NoFrame == [width |-> 0, height |-> 0, data |-> <<>>]

Raised(exc, msg, pos) ==
  [kind |-> "raise", exc |-> exc, msg |-> msg, frame |-> NoFrame, pos |-> pos]
Hung(pos) ==
  [kind |-> "hang", exc |-> "", msg |-> NoMsg, frame |-> NoFrame, pos |-> pos]
Broke(pos) ==
  [kind |-> "break", exc |-> "", msg |-> NoMsg, frame |-> NoFrame, pos |-> pos]
Yielded(frame, pos) ==
  [kind |-> "frame", exc |-> "", msg |-> NoMsg, frame |-> frame, pos |-> pos]

\* width, height = [int(x) for x in line.split(' ')]: ok = FALSE is ValueError
ParseDims(line) ==
  LET fields == Split(line)
      ints == [i \in 1..Len(fields) |-> ParseInt(fields[i])]
  IN IF Len(fields) = 2 /\ \A i \in 1..Len(fields) : ints[i].ok
     THEN [ok |-> TRUE, width |-> ints[1].val, height |-> ints[2].val]
     ELSE [ok |-> FALSE, width |-> 0, height |-> 0]

\* lines 134-140: the payload read, the reshape and the colour conversion
ReadPayload(stream, pos, width, height) ==
  LET n == width * height * 3 IN
  IF n < 0 THEN Raised("ValueError", NoMsg, pos)   \* read(n) with n < -1
  ELSE LET in_bytes == ReadBytes(stream, pos, n)
           after == pos + Len(in_bytes)
       IN IF in_bytes = <<>>
          THEN Raised("ImageDecodeException", Msg("frame", <<>>), after)
          ELSE IF Len(in_bytes) # n \/ width < 0 \/ height < 0
          THEN Raised("ValueError", NoMsg, after)   \* reshape([height, width, 3])
          ELSE Yielded([width |-> width, height |-> height,
                        data |-> cvtColor(in_bytes)], after)

\* Mutant of ReadHeaderRest: the sample depth is read and not compared.
ReadHeaderRest_AnyDepth(stream, pos) ==
  LET l2 == _readline(stream, pos) IN
  IF l2.kind = "hang" THEN Hung(l2.pos)
  ELSE IF l2.kind = "UnicodeDecodeError" THEN Raised("UnicodeDecodeError", NoMsg, l2.pos)
  ELSE IF l2.kind = "none" THEN Raised("AttributeError", NoMsg, l2.pos)
  ELSE LET dims == ParseDims(l2.line) IN
  IF ~dims.ok THEN Raised("ValueError", NoMsg, l2.pos)
  ELSE LET l3 == _readline(stream, l2.pos) IN
  IF l3.kind = "hang" THEN Hung(l3.pos)
  ELSE IF l3.kind = "UnicodeDecodeError" THEN Raised("UnicodeDecodeError", NoMsg, l3.pos)
  ELSE IF l3.kind = "none" THEN Raised("TypeError", NoMsg, l3.pos)
  ELSE LET max_value == ParseInt(l3.line) IN
  IF ~max_value.ok THEN Raised("ValueError", NoMsg, l3.pos)
  ELSE ReadPayload(stream, l3.pos, dims.width, dims.height)

\* lines 128-132: the dimension line and the sample-depth line
ReadHeaderRest(stream, pos) ==
  LET l2 == _readline(stream, pos) IN
  IF l2.kind = "hang" THEN Hung(l2.pos)
  ELSE IF l2.kind = "UnicodeDecodeError" THEN Raised("UnicodeDecodeError", NoMsg, l2.pos)
  ELSE IF l2.kind = "none" THEN Raised("AttributeError", NoMsg, l2.pos)  \* None.split
  ELSE LET dims == ParseDims(l2.line) IN
  IF ~dims.ok THEN Raised("ValueError", NoMsg, l2.pos)
  ELSE LET l3 == _readline(stream, l2.pos) IN
  IF l3.kind = "hang" THEN Hung(l3.pos)
  ELSE IF l3.kind = "UnicodeDecodeError" THEN Raised("UnicodeDecodeError", NoMsg, l3.pos)
  ELSE IF l3.kind = "none" THEN Raised("TypeError", NoMsg, l3.pos)       \* int(None)
  ELSE LET max_value == ParseInt(l3.line) IN
  IF ~max_value.ok THEN Raised("ValueError", NoMsg, l3.pos)
  ELSE IF max_value.val # MaxValueRequired
  THEN Raised("ImageDecodeException", Msg("max_value", <<max_value.val>>), l3.pos)
  ELSE ReadPayload(stream, l3.pos, dims.width, dims.height)

\* lines 121-140: from the read of the format token to the yield
LoopBody(stream, pos) ==
  LET l1 == _readline(stream, pos) IN
  IF l1.kind = "hang" THEN Hung(l1.pos)
  ELSE IF l1.kind = "UnicodeDecodeError" THEN Raised("UnicodeDecodeError", NoMsg, l1.pos)
  ELSE IF l1.kind = "none" \/ l1.line = <<>> THEN Broke(l1.pos)   \* if not format: break
  ELSE IF l1.line # P6
  THEN Raised("ImageDecodeException", Msg("format", <<>>), l1.pos)
  ELSE ReadHeaderRest(stream, l1.pos)

(***************************************************************************)
(* bytes.decode('utf-8') of the captured error stream (line 145).          *)
(***************************************************************************)
IsCont(b) == b >= 128 /\ b <= 191

\* the number of continuation bytes the lead byte b announces, -1: invalid lead
ContCount(b) ==
  IF b < 128 THEN 0
  ELSE IF b >= 194 /\ b <= 223 THEN 1
  ELSE IF b >= 224 /\ b <= 239 THEN 2
  ELSE IF b >= 240 /\ b <= 244 THEN 3
  ELSE 0 - 1

\* the second byte of a sequence excludes overlong forms, surrogates and
\* code points above U+10FFFF
SecondOk(b1, b2) ==
  /\ IsCont(b2)
  /\ (b1 = 224 => b2 >= 160)
  /\ (b1 = 237 => b2 <= 159)
  /\ (b1 = 240 => b2 >= 144)
  /\ (b1 = 244 => b2 <= 143)

RECURSIVE DecodeUtf8(_)
DecodeUtf8(b) ==
  IF b = <<>> THEN [ok |-> TRUE, text |-> <<>>]
  ELSE LET n == ContCount(b[1]) IN
    IF n < 0 \/ Len(b) < n + 1 THEN [ok |-> FALSE, text |-> <<>>]
    ELSE IF n >= 1 /\ ~SecondOk(b[1], b[2]) THEN [ok |-> FALSE, text |-> <<>>]
    ELSE IF \E i \in 3..(n + 1) : ~IsCont(b[i]) THEN [ok |-> FALSE, text |-> <<>>]
    ELSE LET cp == IF n = 0 THEN b[1]
                   ELSE IF n = 1 THEN (b[1] % 32) * 64 + (b[2] % 64)
                   ELSE IF n = 2 THEN (b[1] % 16) * 4096 + (b[2] % 64) * 64 + (b[3] % 64)
                   ELSE (b[1] % 8) * 262144 + (b[2] % 64) * 4096
                        + (b[3] % 64) * 64 + (b[4] % 64)
             rest == DecodeUtf8(SubSeq(b, n + 2, Len(b)))
         IN IF rest.ok THEN [ok |-> TRUE, text |-> <<cp>> \o rest.text]
            ELSE [ok |-> FALSE, text |-> <<>>]

(***************************************************************************)
(* What the environment can answer.                                        *)
(***************************************************************************)
\* the decimal digits of a natural number
RECURSIVE Dec(_)
Dec(n) == IF n < 10 THEN <<48 + n>> ELSE Dec(n \div 10) \o <<48 + (n % 10)>>

\* a complete pixel-map record as ffmpeg's ppm encoder writes it
EncodeRecord(r) ==
  P6 \o <<NL>> \o Dec(r.width) \o <<SP>> \o Dec(r.height) \o <<NL>>
     \o Dec(MaxValueRequired) \o <<NL>> \o r.rgb

RECURSIVE EncodeRecords(_)
EncodeRecords(rs) ==
  IF rs = <<>> THEN <<>> ELSE EncodeRecord(Head(rs)) \o EncodeRecords(Tail(rs))

\* complete records: payloads hold newline, 'P', '6' and a non-ASCII byte
GoodRecords ==
  { [width |-> 1, height |-> 1, rgb |-> <<1, 2, 3>>],
    [width |-> 1, height |-> 1, rgb |-> <<200, 10, 80>>],
    [width |-> 2, height |-> 1, rgb |-> <<1, 2, 3, 4, 5, 6>>],
    [width |-> 1, height |-> 2, rgb |-> <<10, 80, 54, 7, 8, 9>>] }

RecordSeqs == UNION { [1..n -> GoodRecords] : n \in 0..MaxRecords }

\* the record that may follow the tail
FollowRecord == [width |-> 1, height |-> 1, rgb |-> <<1, 2, 3>>]

\* a header with the given second and third line (each without its newline)
Header(dims, depth) == P6 \o <<NL>> \o dims \o <<NL>> \o depth \o <<NL>>

TailOf(kind, bytes) == [kind |-> kind, bytes |-> bytes]

\* what the child process writes after the complete records
Tails ==
  {TailOf("eof", <<>>)}
  \cup  \* a first line other than 'P6': 'P5', then a whole record body
  {TailOf("token", <<80, 53, NL, 49, SP, 49, NL>> \o Dec(255) \o <<NL, 1, 2, 3>>)}
  \cup  \* an empty or whitespace-only first line
  {TailOf("blank", b) : b \in {<<NL>>, <<SP, NL>>, <<9, 13, NL>>}}
  \cup  \* a third line that is an integer other than 255
  {TailOf("depth", Header(<<49, SP, 49>>, d) \o <<1, 2, 3>>) :
     d \in {Dec(254), Dec(256), Dec(65535), <<48>>, <<45, 49>>}}
  \cup  \* a third line that is no integer
  {TailOf("depthtext", Header(<<49, SP, 49>>, d) \o <<1, 2, 3>>) :
     d \in {<<120>>, <<>>}}
  \cup  \* a third line that reads 255 in another spelling
  {TailOf("depth255", Header(<<49, SP, 49>>, d) \o <<1, 2, 3>>) :
     d \in {<<48, 50, 53, 53>>, <<43, 50, 53, 53, SP>>}}
  \cup  \* a payload of k < width*height*3 bytes
  {TailOf("short", Header(<<49, SP, 49>>, Dec(255)) \o SubSeq(<<1, 2, 3>>, 1, k)) :
     k \in 0..2}
  \cup
  {TailOf("short", Header(<<50, SP, 49>>, Dec(255)) \o SubSeq(<<1, 2, 3, 4, 5, 6>>, 1, k)) :
     k \in {3, 5}}
  \cup  \* a malformed second line
  {TailOf("dims", Header(d, Dec(255)) \o <<1, 2, 3>>) :
     d \in {<<49>>, <<49, SP, 120>>, <<49, SP, SP, 49>>, <<49, SP, 49, SP, 49>>,
            <<48, SP, 49>>, <<45, 49, SP, 49>>, <<45, 49, SP, 45, 49>>}}
  \cup  \* a header cut by the end of the stream
  {TailOf("cut", SubSeq(Header(<<49, SP, 49>>, Dec(255)), 1, k)) :
     k \in {1, 2, 3, 4, 7, 9}}

\* stream = the records, the tail and, possibly, one more complete record
StreamOf(rs, tail, more) ==
  EncodeRecords(rs) \o tail.bytes \o (IF more THEN EncodeRecord(FollowRecord) ELSE <<>>)

\* what ffmpeg.probe(file) and float(probe['format']['duration']) can come
\* to; durations are in milliseconds.  The probe is handed the open file
\* object, not its name (line 101): a probe that puts its argument on a
\* command line raises TypeError, and so does float(None).
ProbeOutcomes ==
  { [kind |-> "ok", duration |-> d] : d \in {12500, 300000, 300001} }
  \cup { [kind |-> k, duration |-> 0] :
           k \in {"ffmpeg.Error", "KeyError", "ValueError", "TypeError"} }
NoProbe == [kind |-> "", duration |-> 0]

\* upload_size_limit_bytes (line 114)
upload_size_limit_bytes == rep0st_video_max_upload_size_mb * 1024 * 1024

\* file sizes file.tell() can report at the end of the file
FileSizes == {0, upload_size_limit_bytes, upload_size_limit_bytes + 1}

\* exit statuses of the child process
RetCodes == {0, 1}

\* what the child process can have written to its error stream
StderrOutputs ==
  { <<>>, <<101, 114, 114>>, <<101, 195, 169>>, <<226, 130, 172>>, <<101, 255>>, <<195>> }

PostTypes == {"IMAGE", "VIDEO", "OTHER"}
\* self.decoders (lines 176-179)
decoders == {"IMAGE", "VIDEO"}
Posts == [type : PostTypes, fullsize : BOOLEAN]

\* exceptions the except clause of get_images catches (IOError, OSError)
OSErrors == {"OSError"}

(***************************************************************************)
(* State.                                                                  *)
(***************************************************************************)
VARIABLES
  entry,       \* the function the caller uses: "get_images" or "decode_image_from_buffer"
  post,        \* the argument of get_images: its type, whether it declares a full-size file
  fs_full,     \* whether the declared full-size file exists under 'full/'
  pc,          \* where the generators stand
  media_file,  \* the path get_images settled on: "primary" or "full"
  fsOps,       \* the file-system accesses made so far, in order
  log,         \* the log records written so far, in order
  fileOpen,    \* whether the handle f of get_images is open
  proc,        \* the child process: "none", "running", "waited"
  probe,       \* what the duration probe came to
  file_size,   \* the size measured by seek/tell, -1 before the measurement
  records,     \* the complete records at the start of the child's output
  tail,        \* what the child wrote after them
  more,        \* whether one more complete record follows the tail
  stream,      \* the bytes of proc.stdout
  pos,         \* the read position in proc.stdout, 1-based
  frames,      \* the frames yielded so far
  exit,        \* the wait for the child: whether it returned, timed out, the status
  stderr,      \* the bytes read from proc.stderr
  outcome,     \* how the decoder generator ended: exception and message
  result,      \* how get_images ended, "" while it has not
  imdecoded,   \* what imdecode came to: "img", "None", "raise"; "" before it ran
  requests,    \* the number of elements the consumer has requested
  dpc,         \* byte-level view: where decode_video_from_file stands, "idle" when unused
  dres,        \* byte-level view: the exception decode_video_from_file raised, "" if none
  dframes,     \* byte-level view: the number of frames yielded
  got,         \* the bytes the decoder has taken out of the pipe of proc.stdout
  dpos,        \* the index in got of the next byte the parsing loop reads
  child,       \* byte-level view: the child process, "absent", "running", "exited"
  script,      \* what the child still has to do with its output streams, in order
  outBuf,      \* the bytes in the pipe of proc.stdout
  outClosed,   \* whether the child has closed its standard output
  errBuf,      \* the number of bytes in the pipe of proc.stderr
  fd_off,      \* the offset of the open file, shared by the handle f and the child's stdin
  childIn,     \* the blocks of the file the child has read, in order
  childEof,    \* whether the child has seen the end of its input
  measured     \* the size file.tell() returned, -1 before

vars == <<entry, post, fs_full, pc, media_file, fsOps, log, fileOpen, proc, probe,
          file_size, records, tail, more, stream, pos, frames, exit, stderr, outcome,
          result, imdecoded, requests, dpc, dres, dframes, got, dpos, child, script,
          outBuf, outClosed, errBuf, fd_off, childIn, childEof, measured>>

\* the state of the coarse view of a session, and of the byte-level view
mainVars == <<entry, post, fs_full, pc, media_file, fsOps, log, fileOpen, proc, probe,
              file_size, records, tail, more, stream, pos, frames, exit, stderr, outcome,
              result, imdecoded, requests>>
\* byte-level view: the decoder's own state, and the child's
decVars == <<dpc, dres, dframes, got, dpos, measured>>
chVars == <<child, script, childIn, childEof>>
ioVars == <<decVars, chVars, outBuf, outClosed, errBuf, fd_off>>

envVars == <<records, tail, more, stream>>

NoOutcome == [exc |-> "", msg |-> NoMsg]
NoExit == [waited |-> FALSE, timeout |-> FALSE, retcode |-> 0]

Init ==
  /\ entry \in {"get_images", "decode_image_from_buffer"}
  /\ post \in Posts
  /\ fs_full \in BOOLEAN
  /\ (fs_full => post.fullsize)
  /\ (entry = "decode_image_from_buffer" => post = [type |-> "IMAGE", fullsize |-> FALSE])
  /\ pc = "idle"
  /\ imdecoded = ""
  /\ requests = 0
  /\ dpc = "idle"
  /\ dres = ""
  /\ dframes = 0
  /\ got = <<>>
  /\ dpos = 1
  /\ child = "absent"
  /\ script = <<>>
  /\ outBuf = <<>>
  /\ outClosed = FALSE
  /\ errBuf = 0
  /\ fd_off = 0
  /\ childIn = <<>>
  /\ childEof = FALSE
  /\ measured = 0 - 1
  /\ media_file = "primary"
  /\ fsOps = <<>>
  /\ log = <<>>
  /\ fileOpen = FALSE
  /\ proc = "none"
  /\ probe = NoProbe
  /\ file_size = 0 - 1
  /\ records = <<>>
  /\ tail = TailOf("eof", <<>>)
  /\ more = FALSE
  /\ stream = <<>>
  /\ pos = 1
  /\ frames = <<>>
  /\ exit = NoExit
  /\ stderr = <<>>
  /\ outcome = NoOutcome
  /\ result = ""

\* An exception leaves the decoder generator and passes through the with
\* block and the except clause of get_images (lines 198-205): the file is
\* closed, IOError/OSError become NoMediaFoundException, the rest passes.
DecoderRaises(exc, msg) ==
  /\ outcome' = [exc |-> exc, msg |-> msg]
  /\ result' = IF exc \in OSErrors THEN "NoMediaFoundException" ELSE exc
  /\ fileOpen' = FALSE
  /\ pc' = "done"

\* The decoder generator returns: the with block closes the file and
\* get_images returns.
DecoderReturns ==
  /\ outcome' = [exc |-> "StopIteration", msg |-> NoMsg]
  /\ result' = "exhausted"
  /\ fileOpen' = FALSE
  /\ pc' = "done"

(***************************************************************************)
(* get_images (lines 181-205).                                             *)
(***************************************************************************)
\* lines 182-196, run by the first request for an element: the choice of the
\* file and the lookup of the decoder
Resolve ==
  /\ pc = "g_start"
  /\ requests' = requests + 1
  /\ IF post.fullsize
     THEN /\ fsOps' = Append(fsOps, <<"is_file", "full">>)
          /\ IF fs_full
             THEN /\ log' = Append(log, [level |-> "debug", event |-> "using_fullsize"])
                  /\ media_file' = "full"
             ELSE /\ log' = Append(log, [level |-> "error", event |-> "fullsize_not_found"])
                  /\ media_file' = "primary"
     ELSE UNCHANGED <<fsOps, log, media_file>>
  /\ IF post.type \notin decoders
     THEN /\ result' = "NotImplementedError"
          /\ pc' = "done"
     ELSE /\ pc' = "g_open"
          /\ UNCHANGED result
  /\ UNCHANGED <<ioVars, imdecoded, entry, post, fs_full, fileOpen, proc, probe,
                 file_size, envVars, pos, frames, exit, stderr, outcome>>

\* line 199: media_file.open("rb"); a failure is an OSError, caught at line 202
Open ==
  /\ pc = "g_open"
  /\ fsOps' = Append(fsOps, <<"open", media_file>>)
  /\ \E ok \in BOOLEAN :
       IF ok
       THEN /\ fileOpen' = TRUE
            /\ pc' = IF post.type = "VIDEO" THEN "v_spawn" ELSE "i_read"
            /\ UNCHANGED result
       ELSE /\ result' = "NoMediaFoundException"
            /\ pc' = "done"
            /\ UNCHANGED fileOpen
  /\ UNCHANGED <<ioVars, imdecoded, requests, entry, post, fs_full, media_file, log,
                 proc, probe, file_size, envVars, pos, frames, exit, stderr, outcome>>

(***************************************************************************)
(* _decode_image (lines 52-59), decode_image_from_buffer (lines 61-66) and *)
(* decode_image_from_file (lines 68-74).                                   *)
(***************************************************************************)
\* the image imdecode returns; its content is not modelled
DecodedImage == [width |-> 1, height |-> 1, data |-> <<0, 0, 0>>]

\* what imdecode can come to: an image, None, an exception
ImdecodeResults == {"img", "None", "raise"}

\* Mutant of _decode_image: the None result is returned as the image.
_decode_image_ReturnsNone(r) ==
  IF r = "raise"
  THEN [kind |-> "raise", exc |-> "ImageDecodeException", image |-> NoFrame]
  ELSE [kind |-> "return", exc |-> "",
        image |-> IF r = "img" THEN DecodedImage ELSE NoFrame]

\* _decode_image: the None result raises ImageDecodeException (line 56), and
\* the bare except (line 58) turns every exception into ImageDecodeException
_decode_image(r) ==
  IF r = "img"
  THEN [kind |-> "return", exc |-> "", image |-> DecodedImage]
  ELSE [kind |-> "raise", exc |-> "ImageDecodeException", image |-> NoFrame]

\* Mutant of Call: the call itself looks for the full-size file.
Call_Eager ==
  /\ pc = "idle"
  /\ pc' = IF entry = "get_images" THEN "g_start" ELSE "b_start"
  /\ fsOps' = IF post.fullsize THEN Append(fsOps, <<"is_file", "full">>) ELSE fsOps
  /\ UNCHANGED <<ioVars, imdecoded, requests, entry, post, fs_full, media_file, log,
                 fileOpen, proc, probe, file_size, envVars, pos, frames, exit, stderr,
                 outcome, result>>

\* get_images or decode_image_from_buffer is called: a generator is made,
\* none of the function's code runs
Call ==
  /\ pc = "idle"
  /\ pc' = IF entry = "get_images" THEN "g_start" ELSE "b_start"
  /\ UNCHANGED <<ioVars, imdecoded, requests, entry, post, fs_full, media_file, fsOps,
                 log, fileOpen, proc, probe, file_size, envVars, pos, frames, exit,
                 stderr, outcome, result>>

\* decode_image_from_buffer, run by the first request: numpy.frombuffer on a
\* bytes object, then _decode_image
DecodeImageFromBuffer ==
  /\ pc = "b_start"
  /\ requests' = requests + 1
  /\ \E r \in ImdecodeResults :
       /\ imdecoded' = r
       /\ LET d == _decode_image(r) IN
            IF d.kind = "return"
            THEN /\ frames' = Append(frames, d.image)
                 /\ pc' = "b_yielded"
                 /\ UNCHANGED <<outcome, result>>
            ELSE /\ outcome' = [exc |-> d.exc, msg |-> Msg("image", <<>>)]
                 /\ result' = d.exc
                 /\ pc' = "done"
                 /\ UNCHANGED frames
  /\ UNCHANGED <<ioVars, entry, post, fs_full, media_file, fsOps, log, fileOpen, proc,
                 probe, file_size, envVars, pos, exit, stderr>>

\* the request after the only image of decode_image_from_buffer
BufferExhausted ==
  /\ pc = "b_yielded"
  /\ requests' = requests + 1
  /\ outcome' = [exc |-> "StopIteration", msg |-> NoMsg]
  /\ result' = "exhausted"
  /\ pc' = "done"
  /\ UNCHANGED <<ioVars, imdecoded, entry, post, fs_full, media_file, fsOps, log,
                 fileOpen, proc, probe, file_size, envVars, pos, frames, exit, stderr>>

\* decode_image_from_file: numpy.fromfile, then _decode_image
DecodeImageFromFile ==
  /\ pc = "i_read"
  /\ \E read \in {"ok", "OSError"}, r \in ImdecodeResults :
       IF read = "OSError"
       THEN /\ r = "img"
            /\ DecoderRaises("NoMediaFoundException", Msg("read", <<>>))
            /\ UNCHANGED <<frames, imdecoded>>
       ELSE /\ imdecoded' = r
            /\ LET d == _decode_image(r) IN
                 IF d.kind = "return"
                 THEN /\ frames' = Append(frames, d.image)
                      /\ pc' = "i_yielded"
                      /\ UNCHANGED <<outcome, result, fileOpen>>
                 ELSE /\ DecoderRaises(d.exc, Msg("image", <<>>))
                      /\ UNCHANGED frames
  /\ UNCHANGED <<ioVars, requests, entry, post, fs_full, media_file, fsOps, log, proc,
                 probe, file_size, envVars, pos, exit, stderr>>

\* the request after the only image: the generator returns
ImageExhausted ==
  /\ pc = "i_yielded"
  /\ requests' = requests + 1
  /\ DecoderReturns
  /\ UNCHANGED <<ioVars, imdecoded, entry, post, fs_full, media_file, fsOps, log, proc,
                 probe, file_size, envVars, pos, frames, exit, stderr>>

(***************************************************************************)
(* decode_video_from_file (lines 76-146).                                  *)
(***************************************************************************)
\* lines 93-97: subprocess.Popen with the file as standard input.  What the
\* child will write to its standard output is fixed from here on.
Spawn ==
  /\ pc = "v_spawn"
  /\ \E ok \in BOOLEAN :
       IF ok
       THEN /\ proc' = "running"
            /\ \E rs \in RecordSeqs, t \in Tails, m \in BOOLEAN :
                 /\ (m => t.kind # "eof")
                 /\ records' = rs
                 /\ tail' = t
                 /\ more' = m
                 /\ stream' = StreamOf(rs, t, m)
            /\ pc' = "v_probe"
            /\ UNCHANGED <<outcome, result, fileOpen>>
       ELSE /\ DecoderRaises("OSError", NoMsg)
            /\ UNCHANGED <<proc, envVars>>
  /\ UNCHANGED <<ioVars, imdecoded, requests, entry, post, fs_full, media_file, fsOps,
                 log, probe, file_size, pos, frames, exit, stderr>>

\* lines 99-108: the duration check; only ffmpeg.Error is caught
Probe ==
  /\ pc = "v_probe"
  /\ \E p \in ProbeOutcomes :
       /\ probe' = p
       /\ IF p.kind = "ok"
          THEN IF p.duration > rep0st_video_max_duration * 1000
               THEN /\ DecoderRaises("ImageDecodeException",
                                     Msg("duration", <<p.duration, rep0st_video_max_duration>>))
                    /\ UNCHANGED log
               ELSE /\ pc' = "v_size"
                    /\ UNCHANGED <<log, outcome, result, fileOpen>>
          ELSE IF p.kind = "ffmpeg.Error"
          THEN /\ log' = Append(log, [level |-> "warning", event |-> "probe_failed"])
               /\ pc' = "v_size"
               /\ UNCHANGED <<outcome, result, fileOpen>>
          ELSE /\ DecoderRaises(p.kind, NoMsg)
               /\ UNCHANGED log
  /\ UNCHANGED <<ioVars, imdecoded, requests, entry, post, fs_full, media_file, fsOps,
                 proc, file_size, envVars, pos, frames, exit, stderr>>

\* lines 110-118: the size check
SizeCheck ==
  /\ pc = "v_size"
  /\ \E size \in FileSizes :
       /\ file_size' = size
       /\ IF size > upload_size_limit_bytes
          THEN DecoderRaises("ImageDecodeException",
                             Msg("size", <<size, upload_size_limit_bytes>>))
          ELSE /\ pc' = "v_loop"
               /\ UNCHANGED <<outcome, result, fileOpen>>
  /\ UNCHANGED <<ioVars, imdecoded, requests, entry, post, fs_full, media_file, fsOps,
                 log, proc, probe, envVars, pos, frames, exit, stderr>>

\* Mutant of ReadRecord: a frame is yielded twice.
ReadRecord_YieldsTwice ==
  /\ pc \in {"v_loop", "yielded"}
  /\ requests' = IF pc = "yielded" THEN requests + 1 ELSE requests
  /\ LET r == LoopBody(stream, pos) IN
       /\ pos' = r.pos
       /\ IF r.kind = "frame"
          THEN /\ frames' = Append(Append(frames, r.frame), r.frame)
               /\ pc' = "yielded"
               /\ UNCHANGED <<outcome, result, fileOpen>>
          ELSE IF r.kind = "break"
          THEN /\ pc' = "v_wait"
               /\ UNCHANGED <<frames, outcome, result, fileOpen>>
          ELSE IF r.kind = "hang"
          THEN /\ pc' = "hung"
               /\ UNCHANGED <<frames, outcome, result, fileOpen>>
          ELSE /\ DecoderRaises(r.exc, r.msg)
               /\ UNCHANGED frames
  /\ UNCHANGED <<ioVars, imdecoded, entry, post, fs_full, media_file, fsOps, log, proc,
                 probe, file_size, envVars, exit, stderr>>

\* lines 120-140: one turn of the loop, run by a request for the next element
ReadRecord ==
  /\ pc \in {"v_loop", "yielded"}
  /\ requests' = IF pc = "yielded" THEN requests + 1 ELSE requests
  /\ LET r == LoopBody(stream, pos) IN
       /\ pos' = r.pos
       /\ IF r.kind = "frame"
          THEN /\ frames' = Append(frames, r.frame)
               /\ pc' = "yielded"
               /\ UNCHANGED <<outcome, result, fileOpen>>
          ELSE IF r.kind = "break"
          THEN /\ pc' = "v_wait"
               /\ UNCHANGED <<frames, outcome, result, fileOpen>>
          ELSE IF r.kind = "hang"
          THEN /\ pc' = "hung"
               /\ UNCHANGED <<frames, outcome, result, fileOpen>>
          ELSE /\ DecoderRaises(r.exc, r.msg)
               /\ UNCHANGED frames
  /\ UNCHANGED <<ioVars, imdecoded, entry, post, fs_full, media_file, fsOps, log, proc,
                 probe, file_size, envVars, exit, stderr>>

\* Mutant of WaitExit: the error stream is not attached to the exception.
WaitExit_NoDiagnostics ==
  /\ pc = "v_wait"
  /\ \E inTime \in BOOLEAN, code \in RetCodes, err \in StderrOutputs :
       IF ~inTime
       THEN /\ code = 0 /\ err = <<>>
            /\ exit' = [waited |-> FALSE, timeout |-> TRUE, retcode |-> 0]
            /\ DecoderRaises("TimeoutExpired", Msg("timeout", <<WaitTimeout>>))
            /\ UNCHANGED <<proc, stderr>>
       ELSE /\ exit' = [waited |-> TRUE, timeout |-> FALSE, retcode |-> code]
            /\ proc' = "waited"
            /\ IF code # 0
               THEN /\ stderr' = err
                    /\ IF DecodeUtf8(err).ok
                       THEN DecoderRaises("ImageDecodeException", Msg("stderr", <<>>))
                       ELSE DecoderRaises("UnicodeDecodeError", NoMsg)
               ELSE /\ err = <<>>
                    /\ DecoderReturns
                    /\ UNCHANGED stderr
  /\ UNCHANGED <<ioVars, imdecoded, requests, entry, post, fs_full, media_file, fsOps,
                 log, probe, file_size, envVars, pos, frames>>

\* lines 142-146: the bounded wait, and the error stream on a nonzero status
WaitExit ==
  /\ pc = "v_wait"
  /\ \E inTime \in BOOLEAN, code \in RetCodes, err \in StderrOutputs :
       IF ~inTime
       THEN /\ code = 0 /\ err = <<>>
            /\ exit' = [waited |-> FALSE, timeout |-> TRUE, retcode |-> 0]
            /\ DecoderRaises("TimeoutExpired", Msg("timeout", <<WaitTimeout>>))
            /\ UNCHANGED <<proc, stderr>>
       ELSE /\ exit' = [waited |-> TRUE, timeout |-> FALSE, retcode |-> code]
            /\ proc' = "waited"
            /\ IF code # 0
               THEN /\ stderr' = err
                    /\ IF DecodeUtf8(err).ok
                       THEN DecoderRaises("ImageDecodeException",
                                          Msg("stderr", DecodeUtf8(err).text))
                       ELSE DecoderRaises("UnicodeDecodeError", NoMsg)
               ELSE /\ err = <<>>
                    /\ DecoderReturns
                    /\ UNCHANGED stderr
  /\ UNCHANGED <<ioVars, imdecoded, requests, entry, post, fs_full, media_file, fsOps,
                 log, probe, file_size, envVars, pos, frames>>

\* Mutant of Abandon: closing the generator leaves the file as it is.
Abandon_LeavesFileOpen ==
  /\ pc \in {"g_start", "b_start", "yielded", "i_yielded", "b_yielded"}
  /\ outcome' = IF pc \in {"g_start", "b_start"} THEN outcome
                ELSE [exc |-> "GeneratorExit", msg |-> NoMsg]
  /\ result' = "closed"
  /\ pc' = "done"
  /\ UNCHANGED <<ioVars, imdecoded, requests, entry, post, fs_full, media_file, fsOps,
                 log, proc, probe, file_size, envVars, pos, frames, exit, stderr,
                 fileOpen>>

\* The consumer stops requesting elements and the generator is closed:
\* GeneratorExit at the yield of get_images (line 201) leaves the with block,
\* which closes the file; the decoder generator has no cleanup of its own.
\* A generator that was never started runs no code at all.
Abandon ==
  /\ pc \in {"g_start", "b_start", "yielded", "i_yielded", "b_yielded"}
  /\ outcome' = IF pc \in {"g_start", "b_start"} THEN outcome
                ELSE [exc |-> "GeneratorExit", msg |-> NoMsg]
  /\ result' = "closed"
  /\ fileOpen' = FALSE
  /\ pc' = "done"
  /\ UNCHANGED <<ioVars, imdecoded, requests, entry, post, fs_full, media_file, fsOps,
                 log, proc, probe, file_size, envVars, pos, frames, exit, stderr>>

Next ==
  \/ Call
  \/ Resolve
  \/ Open
  \/ DecodeImageFromBuffer
  \/ BufferExhausted
  \/ DecodeImageFromFile
  \/ ImageExhausted
  \/ Spawn
  \/ Probe
  \/ SizeCheck
  \/ ReadRecord
  \/ WaitExit
  \/ Abandon

Spec == Init /\ [][Next]_vars

(***************************************************************************)
(* Vocabulary of the properties.                                           *)
(***************************************************************************)
\* the frame a complete record stands for: same dimensions, each pixel's
\* three samples in reverse order
ExpectedFrame(r) ==
  [width |-> r.width, height |-> r.height,
   data |-> [i \in 1..Len(r.rgb) |-> r.rgb[3 * ((i - 1) \div 3) + (3 - ((i - 1) % 3))]]]
ExpectedFrames(rs) == [i \in 1..Len(rs) |-> ExpectedFrame(rs[i])]

IsPrefix(a, b) == Len(a) <= Len(b) /\ \A i \in 1..Len(a) : a[i] = b[i]

\* where the tail starts in the stream
TailStart == Len(EncodeRecords(records)) + 1
\* the parsing loop has read into the tail
TailReached == proc # "none" /\ pos > TailStart

\* the session was ended by one of the two pre-flight limits
RejectedByLimit ==
  /\ outcome.exc = "ImageDecodeException"
  /\ outcome.msg.tag \in {"duration", "size"}

\* the text of the error-stream outputs that are text
ExpectedText(bytes) ==
  IF bytes = <<101, 195, 169>> THEN <<101, 233>>
  ELSE IF bytes = <<226, 130, 172>> THEN <<8364>>
  ELSE bytes
IsText(bytes) == bytes \in {<<>>, <<101, 114, 114>>, <<101, 195, 169>>, <<226, 130, 172>>}

(***************************************************************************)
(* Properties.                                                             *)
(***************************************************************************)
\* C1: a run that is rejected by a pre-flight limit (upload size above the
\* cap, duration above the maximum) has spawned no child process.
C1_RejectedBeforeSpawn == RejectedByLimit => proc = "none"

\* C2: when the child's output is N complete records followed by end of
\* stream, the frames yielded so far are always the first frames of the N
\* records (dimensions kept, colour order swapped), the loop leaves only
\* after all N, no turn of the loop fails or hangs, and with exit status 0
\* the sequence ends without error after exactly the N frames.
C2_WellFormedStreamYieldsAllFrames ==
  (proc # "none" /\ tail.kind = "eof") =>
    /\ IsPrefix(frames, ExpectedFrames(records))
    /\ pc # "hung"
    /\ (pc = "v_wait" => frames = ExpectedFrames(records))
    /\ (pc = "done" /\ file_size \in 0..upload_size_limit_bytes /\ ~exit.waited
          => outcome.exc \in {"GeneratorExit", "TimeoutExpired"})
    /\ (exit.waited /\ exit.retcode = 0
          => /\ frames = ExpectedFrames(records)
             /\ outcome.exc = "StopIteration"
             /\ result = "exhausted")
C2_Witness ==
  /\ tail.kind = "eof"
  /\ Len(records) = MaxRecords
  /\ records[1] # records[2]
  /\ result = "exhausted"
  /\ frames = ExpectedFrames(records)

\* C3: a record whose payload is cut short by the end of the stream (k bytes
\* available, 0 <= k < width*height*3) fails with ImageDecodeException and
\* yields no frame for that record.
C3_ShortPayloadIsDecodeError ==
  (tail.kind = "short" /\ ~more /\ TailReached) =>
    /\ outcome.exc = "ImageDecodeException"
    /\ frames = ExpectedFrames(records)

\* C4: a record whose third header line is an integer other than 255 fails
\* with ImageDecodeException when it is reached, and neither that record
\* nor any record after it yields a frame.
C4_WrongDepthIsDecodeError ==
  (tail.kind = "depth" /\ TailReached) =>
    /\ pc = "done"
    /\ outcome.exc = "ImageDecodeException"
    /\ outcome.msg.tag = "max_value"
    /\ frames = ExpectedFrames(records)
C4_Witness ==
  /\ tail.kind = "depth"
  /\ more
  /\ TailReached
  /\ Len(records) >= 1
  /\ outcome.exc = "ImageDecodeException"
  /\ frames = ExpectedFrames(records)

\* C5: when the loop has ended and the child has exited with a nonzero
\* status, the session fails with ImageDecodeException, the frames yielded
\* before stay as they are (all of them when the stream ended cleanly), and
\* the message is the text captured from the error stream.
C5_NonzeroExitCarriesDiagnostics ==
  (exit.waited /\ exit.retcode # 0 /\ IsText(stderr)) =>
    /\ pc = "done"
    /\ outcome.exc = "ImageDecodeException"
    /\ outcome.msg = Msg("stderr", ExpectedText(stderr))
    /\ result = "ImageDecodeException"
    /\ (tail.kind = "eof" => frames = ExpectedFrames(records))
C5_Witness ==
  /\ tail.kind = "eof"
  /\ exit.waited
  /\ exit.retcode # 0
  /\ stderr = <<101, 195, 169>>
  /\ Len(frames) >= 1
  /\ outcome.msg = Msg("stderr", <<101, 233>>)

\* C6: a failed duration probe (the probe command failing, no duration in
\* the metadata, a duration that is no number or of the wrong type, a probe
\* that rejects its argument) is never raised: the session goes on to the
\* size check.
C6_ProbeFailureNeverRaised ==
  probe.kind \in {"ffmpeg.Error", "KeyError", "ValueError", "TypeError"} =>
    (pc = "v_size" \/ file_size >= 0)

\* C7: a session that spawned a child process and has ended, in whichever
\* way, has waited on (or terminated) that process.
C7_ProcessReapedWhenSessionEnds ==
  (pc = "done" /\ proc # "none") => proc = "waited"

\* C8: when the child has not exited within the bound of the wait, the
\* session does not block and fails with ImageDecodeException.
C8_TimeoutIsDecodeError ==
  exit.timeout => (pc = "done" /\ outcome.exc = "ImageDecodeException")

\* C9: the loop ends the sequence normally only when no byte is available
\* where the first header line is expected; a first line other than 'P6'
\* (an empty or whitespace-only one included) and an end of stream inside a
\* record fail with ImageDecodeException.
C9_OnlyCleanEndOfStreamEndsSequence ==
  [][ /\ (pc # "v_wait" /\ pc' = "v_wait" => pos > Len(stream))
      /\ (tail.kind \in {"token", "blank", "cut"} /\ ~more /\ ~TailReached /\ TailReached'
            => outcome'.exc = "ImageDecodeException") ]_vars

\* the open calls among the file-system accesses
Opens == SelectSeq(fsOps, LAMBDA op : op[1] = "open")
\* the file the resolution rule selects
ChosenFile == IF post.fullsize /\ fs_full THEN "full" ELSE "primary"
\* an element has been requested from the generator of get_images
Started ==
  /\ entry = "get_images"
  /\ pc \notin {"idle", "g_start"}
  /\ ~(result = "closed" /\ outcome.exc = "")
FallbackLogged(level) ==
  \E i \in 1..Len(log) : log[i] = [level |-> level, event |-> "fullsize_not_found"]

\* C10: an iterated call opens exactly one file, the full-size one
\* when declared and present, else the primary one; the fallback from a
\* declared but absent full-size file is logged at warning level; without a
\* declared full-size file 'full/' is never touched.
C10_OneFileOpenedFallbackWarned ==
  /\ (pc = "done" /\ Started => Opens = << <<"open", ChosenFile>> >>)
  /\ (Started /\ post.fullsize /\ ~fs_full => FallbackLogged("warning"))
  /\ (~post.fullsize => \A i \in 1..Len(fsOps) : fsOps[i][2] # "full")

\* C11: for a post whose type has no decoder, get_images fails with the
\* unsupported-type error without any file-system access before it.
C11_UnsupportedTypeTouchesNoFile ==
  result = "NotImplementedError" => fsOps = <<>>

\* C12: every error the decoder raises reaches the caller of get_images as
\* the same kind of error.
C12_DecoderErrorsReachCallerUnchanged ==
  (entry = "get_images" /\ pc = "done"
     /\ outcome.exc \notin {"", "StopIteration", "GeneratorExit"})
    => result = outcome.exc

\* C13: decoding an image either yields exactly one image and then ends, or
\* fails with ImageDecodeException having yielded nothing; a None result and
\* an exception of imdecode both give that error.
C13_ImageDecodeHasTwoOutcomes ==
  /\ (imdecoded = "img" =>
        /\ frames = <<DecodedImage>>
        /\ (pc = "done" => outcome.exc \in {"StopIteration", "GeneratorExit"})
        /\ (outcome.exc = "StopIteration" => result = "exhausted"))
  /\ (imdecoded \in {"None", "raise"} =>
        /\ pc = "done"
        /\ frames = <<>>
        /\ outcome.exc = "ImageDecodeException"
        /\ result = "ImageDecodeException")
C13_Witness ==
  /\ entry = "decode_image_from_buffer"
  /\ imdecoded = "None"
  /\ frames = <<>>
  /\ outcome.exc = "ImageDecodeException"

\* C14: a record whose second header line is malformed (not two integers
\* separated by one space, a non-numeric field, a width or height that is
\* zero or negative), or whose stream ends where the second or the third
\* line is expected (after the 3 bytes of line 1, after the 7 bytes of
\* lines 1 and 2), fails with ImageDecodeException.
C14_MalformedDimensionsAreDecodeError ==
  (TailReached /\ (\/ tail.kind = "dims"
                   \/ (tail.kind = "cut" /\ ~more /\ Len(tail.bytes) \in {3, 7})))
    => outcome.exc = "ImageDecodeException"

\* C15: on a finite output whose stream is closed, the line reader never
\* enters a loop that does not end.
C15_LineReaderNeverSpins == pc # "hung"

\* the complete records the bytes after `records` hold, by the format: a
\* record whose depth line spells 255 differently, a record whose short
\* payload is filled up by the first bytes of the record that follows
TailRecords ==
  IF tail.kind = "depth255"
  THEN << [width |-> 1, height |-> 1, rgb |-> <<1, 2, 3>>] >>
       \o (IF more THEN <<FollowRecord>> ELSE <<>>)
  ELSE IF tail.kind = "short" /\ more
  THEN LET width == tail.bytes[4] - 48
           have == SubSeq(tail.bytes, 12, Len(tail.bytes))
           fill == SubSeq(EncodeRecord(FollowRecord), 1, width * 3 - Len(have))
       IN << [width |-> width, height |-> 1, rgb |-> have \o fill] >>
  ELSE <<>>
AllRecords == records \o TailRecords

\* C16: the frames yielded so far are always the frames of the first k
\* records of the child's output, in order, and a session that has failed
\* during or after the loop has yielded exactly the complete records before
\* the offending bytes.
C16_FramesAreLeadingRecords ==
  proc # "none" =>
    /\ IsPrefix(frames, ExpectedFrames(AllRecords))
    /\ (pc \in {"v_wait", "hung"} => frames = ExpectedFrames(AllRecords))
    /\ (pc = "done" /\ file_size \in 0..upload_size_limit_bytes
          /\ outcome.exc # "GeneratorExit"
          => frames = ExpectedFrames(AllRecords))
C16_Witness ==
  /\ pc = "done"
  /\ tail.kind = "short"
  /\ more
  /\ Len(records) >= 1
  /\ Len(frames) = Len(records) + 1
  /\ outcome.exc = "ImageDecodeException"

\* C17: the call by itself opens no file, checks nothing and spawns nothing;
\* that happens with the first request, each request yields at most one
\* frame, and at a yield the decoder has read the records it has yielded and
\* no byte more.
C17_PullDriven ==
  /\ (requests = 0 =>
        /\ fsOps = <<>> /\ log = <<>> /\ ~fileOpen
        /\ proc = "none" /\ probe = NoProbe /\ file_size = 0 - 1
        /\ frames = <<>> /\ imdecoded = "")
  /\ Len(frames) <= requests
  /\ (pc = "yielded" /\ Len(frames) <= Len(records) =>
        /\ Len(frames) = requests
        /\ pos = 1 + Len(EncodeRecords(SubSeq(records, 1, Len(frames)))))
C17_Witness ==
  /\ pc = "yielded"
  /\ requests = 2
  /\ Len(frames) = 2
  /\ Len(records) = 2
  /\ proc = "running"

\* C18: when the iteration of get_images is over (exhausted, failed, or
\* closed by a consumer that stopped early) the file it opened is closed.
C18_FileReleasedWhenIterationOver ==
  /\ (pc = "done" => ~fileOpen)
  /\ (fileOpen => Opens # <<>>)
C18_Witness ==
  /\ pc = "done"
  /\ result = "closed"
  /\ Opens # <<>>
  /\ frames # <<>>
  /\ ~fileOpen
(***************************************************************************)
(* The byte-level view of decode_video_from_file (lines 76-146): the       *)
(* decoder and the child process run concurrently.  Popen (lines 93-97)    *)
(* gives the child the open file as its standard input, so both use one    *)
(* file offset, and two pipes, stdout and stderr, of bounded capacity.     *)
(***************************************************************************)

\* one thing the child does with its output streams: a byte written to
\* stdout ("out") or to stderr ("err"), or stdout closed ("close")
Step(to, byte) == [to |-> to, byte |-> byte]

\* what the child may write to its standard output: nothing, a blank line,
\* a header cut in its first line or after it, a first line other than
\* 'P6', a whole record
PipeStreams ==
  {<<>>, <<NL>>, P6, P6 \o <<NL>>, <<80, 53, NL>>, EncodeRecord(FollowRecord)}

\* the child writes the stream s and closes stdout, with a burst of k bytes
\* of diagnostics after its first p steps
ScriptOf(s, p, k) ==
  LET base == [i \in 1..Len(s) |-> Step("out", s[i])] \o <<Step("close", 0)>>
  IN SubSeq(base, 1, p) \o [i \in 1..k |-> Step("err", 101)]
       \o SubSeq(base, p + 1, Len(base))

Scripts ==
  UNION {{ScriptOf(s, p, k) : p \in 0..(Len(s) + 1), k \in 0..MaxErr} : s \in PipeStreams}

\* the blocks of the media file, in file order
FileBlocks == [i \in 1..FileLen |-> i]

PipeInit ==
  /\ entry = "get_images"
  /\ post = [type |-> "VIDEO", fullsize |-> FALSE]
  /\ fs_full \in BOOLEAN
  /\ pc = "v_spawn"
  /\ media_file = "image"
  /\ fsOps = <<[op |-> "open", file |-> "image"]>>
  /\ log = <<>>
  /\ fileOpen = TRUE
  /\ proc = "none"
  /\ probe = NoProbe
  /\ file_size = 0
  /\ records = <<>>
  /\ tail = "eof"
  /\ more = <<>>
  /\ stream = <<>>
  /\ pos = 1
  /\ frames = <<>>
  /\ exit = NoExit
  /\ stderr = <<>>
  /\ outcome = NoOutcome
  /\ result = "none"
  /\ imdecoded = ""
  /\ requests = 1
  /\ dpc = "spawn"
  /\ dres = ""
  /\ dframes = 0
  /\ got = <<>>
  /\ dpos = 1
  /\ child = "absent"
  /\ script = <<>>
  /\ outBuf = <<>>
  /\ outClosed = FALSE
  /\ errBuf = 0
  /\ fd_off = 0
  /\ childIn = <<>>
  /\ childEof = FALSE
  /\ measured = 0 - 1

\* subprocess.Popen(cmd, stdin=file, stdout=PIPE, stderr=PIPE) (lines 93-97)
PopenChild ==
  /\ dpc = "spawn"
  /\ child' = "running"
  /\ script' \in Scripts
  /\ dpc' = "probe"
  /\ UNCHANGED <<mainVars, dres, dframes, got, dpos, measured, childIn, childEof,
                 outBuf, outClosed, errBuf, fd_off>>

\* lines 99-108: the duration check; only ffmpeg.Error is caught, and an
\* exception that leaves here leaves the child running
ProbeDuration ==
  /\ dpc = "probe"
  /\ \E p \in ProbeOutcomes :
       IF p.kind = "ok"
       THEN IF p.duration > rep0st_video_max_duration * 1000
            THEN dpc' = "raised" /\ dres' = "ImageDecodeException"
            ELSE dpc' = "seek_end" /\ dres' = dres
       ELSE IF p.kind = "ffmpeg.Error"
       THEN dpc' = "seek_end" /\ dres' = dres
       ELSE dpc' = "raised" /\ dres' = p.kind
  /\ UNCHANGED <<mainVars, dframes, got, dpos, measured, chVars, outBuf, outClosed,
                 errBuf, fd_off>>

\* file.seek(0, 2) (line 111)
SeekEnd ==
  /\ dpc = "seek_end"
  /\ fd_off' = FileLen
  /\ dpc' = "tell"
  /\ UNCHANGED <<mainVars, dres, dframes, got, dpos, measured, chVars, outBuf,
                 outClosed, errBuf>>

\* file_size = file.tell() (line 112)
Tell ==
  /\ dpc = "tell"
  /\ measured' = fd_off
  /\ dpc' = "seek_start"
  /\ UNCHANGED <<mainVars, dres, dframes, got, dpos, chVars, outBuf, outClosed,
                 errBuf, fd_off>>

\* file.seek(0) (line 113); the size is under the limit (lines 115-118)
SeekStart ==
  /\ dpc = "seek_start"
  /\ fd_off' = 0
  /\ dpc' = "read"
  /\ UNCHANGED <<mainVars, dres, dframes, got, dpos, measured, chVars, outBuf,
                 outClosed, errBuf>>

\* the turn of the loop that starts at p reads no byte past the end of
\* bytes: one more byte after them would change nothing
TurnSettled(bytes, p) == LoopBody(bytes \o <<0>>, p) = LoopBody(bytes, p)

\* a read of proc.stdout returns b'': the pipe is empty and closed
StdoutAtEnd == outBuf = <<>> /\ outClosed

\* a read of proc.stdout inside the loop (lines 24, 28, 134) that finds the
\* buffer of the reader short of what the turn needs: it takes what the
\* pipe holds, and blocks while the pipe is empty and open
ReadStdout ==
  /\ dpc = "read"
  /\ ~TurnSettled(got, dpos)
  /\ outBuf # <<>>
  /\ got' = got \o outBuf
  /\ outBuf' = <<>>
  /\ UNCHANGED <<mainVars, dpc, dres, dframes, dpos, measured, chVars, outClosed,
                 errBuf, fd_off>>

\* lines 120-140: one turn of the loop, once the bytes it reads are there
\* or the end of the stream has been seen; the consumer keeps pulling
LoopTurn ==
  /\ dpc = "read"
  /\ TurnSettled(got, dpos) \/ StdoutAtEnd
  /\ LET r == LoopBody(got, dpos) IN
       /\ dpos' = r.pos
       /\ IF r.kind = "frame"
          THEN dframes' = dframes + 1 /\ dpc' = dpc /\ dres' = dres
          ELSE IF r.kind = "break"
          THEN dframes' = dframes /\ dpc' = "wait" /\ dres' = dres
          ELSE IF r.kind = "hang"
          THEN dframes' = dframes /\ dpc' = "spin" /\ dres' = dres
          ELSE dframes' = dframes /\ dpc' = "raised" /\ dres' = r.exc
  /\ UNCHANGED <<mainVars, got, measured, chVars, outBuf, outClosed, errBuf, fd_off>>

\* proc.wait(timeout=1) and the test of the return code (lines 142-143):
\* the status of a child that has exited, TimeoutExpired for one that has not
WaitChild ==
  /\ dpc = "wait"
  /\ IF child = "exited"
     THEN \E code \in RetCodes :
            /\ dpc' = IF code = 0 THEN "done" ELSE "read_stderr"
            /\ dres' = dres
     ELSE dpc' = "raised" /\ dres' = "TimeoutExpired"
  /\ UNCHANGED <<mainVars, dframes, got, dpos, measured, chVars, outBuf, outClosed,
                 errBuf, fd_off>>

\* proc.stderr.read() (line 145), the only read of the error stream, and
\* the raise of ImageDecodeException (line 146)
ReadStderr ==
  /\ dpc = "read_stderr"
  /\ errBuf' = 0
  /\ dpc' = "raised"
  /\ dres' = "ImageDecodeException"
  /\ UNCHANGED <<mainVars, dframes, got, dpos, measured, chVars, outBuf, outClosed,
                 fd_off>>

\* the child reads its standard input, input 'pipe:' (line 84), at the offset
\* it shares with the handle of the decoder
ChildRead ==
  /\ child = "running"
  /\ ~childEof
  /\ IF fd_off < FileLen
       THEN /\ childIn' = Append(childIn, FileBlocks[fd_off + 1])
            /\ fd_off' = fd_off + 1
            /\ childEof' = childEof
       ELSE /\ childEof' = TRUE
            /\ UNCHANGED <<childIn, fd_off>>
  /\ UNCHANGED <<mainVars, decVars, child, script, outBuf, outClosed, errBuf>>

\* the child takes the next step of its script; a write to a full pipe blocks
ChildWrite ==
  /\ child = "running"
  /\ script # <<>>
  /\ \/ /\ Head(script).to = "out"
        /\ Len(outBuf) < PipeCap
        /\ outBuf' = Append(outBuf, Head(script).byte)
        /\ UNCHANGED <<errBuf, outClosed>>
     \/ /\ Head(script).to = "err"
        /\ errBuf < PipeCap
        /\ errBuf' = errBuf + 1
        /\ UNCHANGED <<outBuf, outClosed>>
     \/ /\ Head(script).to = "close"
        /\ outClosed' = TRUE
        /\ UNCHANGED <<outBuf, errBuf>>
  /\ script' = Tail(script)
  /\ UNCHANGED <<mainVars, decVars, child, childIn, childEof, fd_off>>

\* the child exits once it has read its input to the end and written all
\* it had to write
ChildExit ==
  /\ child = "running"
  /\ script = <<>>
  /\ childEof
  /\ child' = "exited"
  /\ UNCHANGED <<mainVars, decVars, script, childIn, childEof, outBuf, outClosed,
                 errBuf, fd_off>>

PipeNext ==
  \/ PopenChild
  \/ ProbeDuration
  \/ SeekEnd
  \/ Tell
  \/ SeekStart
  \/ ReadStdout
  \/ LoopTurn
  \/ WaitChild
  \/ ReadStderr
  \/ ChildRead
  \/ ChildWrite
  \/ ChildExit

PipeSpec == PipeInit /\ [][PipeNext]_vars

\* the decoder waits for a byte of stdout that the child has not written
DecoderBlocked ==
  /\ dpc = "read"
  /\ ~TurnSettled(got, dpos)
  /\ outBuf = <<>>
  /\ ~outClosed

\* the child waits for room in the pipe of its error stream
ChildBlockedOnStderr ==
  /\ child = "running"
  /\ script # <<>>
  /\ Head(script).to = "err"
  /\ errBuf = PipeCap

(***************************************************************************)
(* C19: the decoder is never blocked reading the output stream while the   *)
(* child process is blocked writing to its error stream.                   *)
(***************************************************************************)
C19_NoPipeDeadlock ==
  ~(DecoderBlocked /\ ChildBlockedOnStderr)

(***************************************************************************)
(* C20: the child process reads the complete input file, first block to    *)
(* last, in every interleaving with the decoder's size measurement: what   *)
(* it has read is always a leading part of the file, and the whole file    *)
(* once it has seen the end of its input.                                  *)
(***************************************************************************)
C20_ChildReadsWholeFile ==
  /\ IsPrefix(childIn, FileBlocks)
  /\ childEof => childIn = FileBlocks

====
